---- MODULE Spec2Model ----
(***************************************************************************)
(* Model of server/src/workflow-management/integrations/gsheet.ts:         *)
(* the task registry googleSheetUpdateTasks, updateGoogleSheet,            *)
(* writeDataToSheet and the polling loop processGoogleSheetUpdates; and of *)
(* the routes generate-api-key and delete-api-key of                       *)
(* server/src/routes/auth.ts.                                              *)
(*                                                                         *)
(* Cell values, e-mail addresses, sheet ids, tokens and URLs are opaque    *)
(* strings; the empty string stands for every falsy value (undefined,      *)
(* null, "").  A JavaScript object with string keys is the sequence of     *)
(* its <<key, value>> pairs in insertion order, which is the order         *)
(* Object.keys and Object.values enumerate non-numeric keys in.            *)
(***************************************************************************)
EXTENDS Integers, Sequences, FiniteSets, TLC

\* ------------------------------------------------------------------ bounds
MaxRows == 2
MaxEnqueues == 3
MaxLateEnqueues == 1
MaxTokenEvents == 2
MaxRequests == 3

\* --------------------------------------------------------------- constants
MAX_RETRIES == 5

RunIds == {"run1", "run2"}
RobotIds == {"robot1"}
Procs == {"p1", "p2"}
Calls == {"w1", "w2"}
Requests == 1..MaxRequests

\* ------------------------------------------------------- JavaScript objects
Keys == {"a", "b"}
Vals == {"1", "2"}
Pairs == Keys \X Vals

\* Objects over Keys with pairwise distinct keys, in every insertion order.
Objs ==
  {<<>>} \cup {<<kv>> : kv \in Pairs}
         \cup {xy \in Pairs \X Pairs : xy[1][1] # xy[2][1]}

RECURSIVE SeqsUpTo(_, _)
SeqsUpTo(S, n) ==
  IF n = 0 THEN {<<>>}
  ELSE LET shorter == SeqsUpTo(S, n - 1)
       IN  shorter \cup {Append(s, x) : s \in {t \in shorter : Len(t) = n - 1}, x \in S}

ObjectKeys(o) == [i \in 1..Len(o) |-> o[i][1]]
ObjectValues(o) == [i \in 1..Len(o) |-> o[i][2]]
HasKey(o, k) == \E i \in 1..Len(o) : o[i][1] = k
Get(o, k) == o[CHOOSE i \in 1..Len(o) : o[i][1] = k][2]

\* ------------------------------------------------------------- Run records
\* serializableOutput / binaryOutput: absent (null), or a mapping whose
\* domain is the set of its output names.
NoRun == [found |-> FALSE]

Datas(n) == SeqsUpTo(Objs, n)

SerOutputs(D) ==
  {[present |-> FALSE, names |-> {}, item0 |-> <<>>],
   [present |-> TRUE, names |-> {}, item0 |-> <<>>],
   [present |-> TRUE, names |-> {"item-1"}, item0 |-> <<>>]}
  \cup {[present |-> TRUE, names |-> {"item-0"}, item0 |-> d] : d \in D}

Urls == {"", "https://x/y.png"}

BinOutputs ==
  {[present |-> FALSE, names |-> {}, item0 |-> ""],
   [present |-> TRUE, names |-> {}, item0 |-> ""]}
  \cup {[present |-> TRUE, names |-> {"item-0"}, item0 |-> u] : u \in Urls}

RunStatuses == {"success", "running", "failed"}

Runs(D) ==
  {NoRun} \cup
  {[found |-> TRUE, status |-> s, serializableOutput |-> so, binaryOutput |-> bo] :
     s \in RunStatuses, so \in SerOutputs(D), bo \in BinOutputs}

\* ----------------------------------------------------------- Robot records
NoRobot == [found |-> FALSE]

GoogleSheets ==
  [present : {TRUE}, email : {"", "u@x"}, sheet_id : {"", "sheet1"},
   access_token : {"", "at"}, refresh_token : {"", "rt"}]
  \cup {[present |-> FALSE, email |-> "", sheet_id |-> "",
         access_token |-> "", refresh_token |-> ""]}

Robots == {NoRobot} \cup {[found |-> TRUE, google_sheets |-> g] : g \in GoogleSheets}

\* plainRobot.integrations?.google_sheets?.<field>
Field(robot, f) ==
  IF robot.google_sheets.present THEN robot.google_sheets[f] ELSE ""

\* Result of sheets.spreadsheets.values.append: HTTP 200, another status, or
\* a rejected promise.
ApiResults == {"200", "non200", "raise"}

\* ------------------------------------------------------- writeDataToSheet
WriteResult(threw, appendCalled, kind) ==
  [threw |-> threw, appendCalled |-> appendCalled, kind |-> kind]

\* writeDataToSheet without the rethrow of lines 168-171.
writeDataToSheet_Swallow(robotW, api) ==
  IF ~robotW.found THEN WriteResult(TRUE, FALSE, "robotMissing")
  ELSE IF Field(robotW, "access_token") = "" \/ Field(robotW, "refresh_token") = ""
    THEN WriteResult(TRUE, FALSE, "tokensMissing")
  ELSE IF api = "200" THEN WriteResult(FALSE, TRUE, "written")
  ELSE WriteResult(FALSE, TRUE, "non200")

\* robotW is what Robot.findOne returns inside writeDataToSheet, api the
\* result of the append request.
writeDataToSheet(robotW, api) ==
  IF ~robotW.found THEN WriteResult(TRUE, FALSE, "robotMissing")
  ELSE IF Field(robotW, "access_token") = "" \/ Field(robotW, "refresh_token") = ""
    THEN WriteResult(TRUE, FALSE, "tokensMissing")
  ELSE IF api = "raise" THEN WriteResult(TRUE, TRUE, "apiError")
  ELSE IF api = "200" THEN WriteResult(FALSE, TRUE, "written")
  ELSE WriteResult(FALSE, TRUE, "non200")

\* ------------------------------------------------------ updateGoogleSheet
Undefined == [defined |-> FALSE, rows |-> <<>>]
Defined(rows) == [defined |-> TRUE, rows |-> rows]

\* lines 29-43 without the binaryOutput branch of lines 37-43
SelectData_NoBinary(run) ==
  IF run.serializableOutput.present /\ run.serializableOutput.names # {}
    THEN IF "item-0" \in run.serializableOutput.names
           THEN Defined(run.serializableOutput.item0)
           ELSE Undefined
  ELSE Defined(<<>>)

\* lines 29-43: the data array chosen from the run's outputs.
SelectData(run) ==
  IF run.serializableOutput.present /\ run.serializableOutput.names # {}
    THEN IF "item-0" \in run.serializableOutput.names
           THEN Defined(run.serializableOutput.item0)
           ELSE Undefined
  ELSE IF /\ run.binaryOutput.present
          /\ "item-0" \in run.binaryOutput.names
          /\ run.binaryOutput.item0 # ""
    THEN Defined(<< << <<"Screenshot URL", run.binaryOutput.item0>> >> >>)
  ELSE Defined(<<>>)

\* lines 63-67: headers from the first object, one row of values per object.
OutputData(data) ==
  LET headers == ObjectKeys(data[1])
      rows == [i \in 1..Len(data) |-> ObjectValues(data[i])]
  IN  <<headers>> \o rows

\* line 58 with `||` for `&&`
Configured_Either(robot) ==
  Field(robot, "email") # "" \/ Field(robot, "sheet_id") # ""

\* line 58: email && spreadsheetId
Configured(robot) ==
  Field(robot, "email") # "" /\ Field(robot, "sheet_id") # ""

CallResult(outcome, kind, writeInvoked, appendCalled, rows) ==
  [called |-> TRUE, outcome |-> outcome, kind |-> kind,
   writeInvoked |-> writeInvoked, appendCalled |-> appendCalled, rows |-> rows]

\* lines 20-80 without the test of the run's status (line 28)
TryBody_IgnoreStatus(run, robot, robotW, api) ==
  IF ~run.found THEN CallResult("threw", "runMissing", FALSE, FALSE, <<>>)
  ELSE IF ~robot.found THEN CallResult("threw", "robotMissing", FALSE, FALSE, <<>>)
  ELSE IF ~Configured(robot)
    THEN CallResult("returned", "notConfigured", FALSE, FALSE, <<>>)
  ELSE LET data == SelectData(run) IN
       IF ~data.defined \/ Len(data.rows) = 0
         THEN CallResult("threw", "dataError", FALSE, FALSE, <<>>)
       ELSE LET w == writeDataToSheet(robotW, api) IN
            CallResult(IF w.threw THEN "threw" ELSE "returned", w.kind, TRUE,
                       w.appendCalled, OutputData(data.rows))

\* The body of the try block, lines 20-80.  outcome "threw" is an exception
\* leaving the try block.
TryBody(run, robot, robotW, api) ==
  IF ~run.found THEN CallResult("threw", "runMissing", FALSE, FALSE, <<>>)
  ELSE IF run.status # "success"
    THEN CallResult("returned", "notSuccess", FALSE, FALSE, <<>>)
  ELSE IF ~robot.found THEN CallResult("threw", "robotMissing", FALSE, FALSE, <<>>)
  ELSE IF ~Configured(robot)
    THEN CallResult("returned", "notConfigured", FALSE, FALSE, <<>>)
  ELSE LET data == SelectData(run) IN
       \* Object.keys(data[0]) raises a TypeError when data is undefined or empty
       IF ~data.defined \/ Len(data.rows) = 0
         THEN CallResult("threw", "dataError", FALSE, FALSE, <<>>)
       ELSE LET w == writeDataToSheet(robotW, api) IN
            CallResult(IF w.threw THEN "threw" ELSE "returned", w.kind, TRUE,
                       w.appendCalled, OutputData(data.rows))

\* lines 81-85 with the error thrown on to the caller
Catch_Rethrow(res) == res

\* lines 81-85: the catch block logs the error and returns.
Catch(res) == [res EXCEPT !.outcome = "returned"]

updateGoogleSheet(run, robot, robotW, api) == Catch(TryBody(run, robot, robotW, api))

\* The kinds of attempt that did not write the run's output to the sheet.
FailKinds ==
  {"runMissing", "robotMissing", "tokensMissing", "apiError", "dataError"}

NoRetryKinds == {"runMissing", "robotMissing", "notConfigured"}

\* ------------------------------------------------------------------- state
VARIABLES
  registry,         \* googleSheetUpdateTasks: runId -> task, DOMAIN = its keys
  pc,               \* per invocation of processGoogleSheetUpdates: where it is
  hasPendingTasks,  \* per invocation: the flag of the current scan
  todo,             \* per invocation: keys of the current for-in still to visit
  late,             \* per invocation: keys added while the for-in is running
  visited,          \* per invocation: keys the current for-in has attempted
  cur,              \* per invocation: runId of the call being awaited
  task,             \* per invocation: the task object bound to `task`
  entryGen,         \* history: per runId, how many entries were inserted
  attempts,         \* history: per runId and invocation, calls begun for the
                    \*          entry now stored under that runId
  ended,            \* history: per runId, an attempt of the entry now stored
                    \*          ended for a missing run/robot/configuration
  enqCount,         \* history: number of insertions so far
  owed,             \* history: per invocation, the runIds inserted under a key
                    \*          the registry did not hold while the invocation
                    \*          was running, for which no call has begun since
  last,             \* history: the call of the processor that settled in the
                    \*          step leading to this state, if any
  input,            \* arguments and collaborators of a direct call
  result,           \* result of the direct call
  store,            \* the robot's row in the database: its integrations
  writer,           \* per call of writeDataToSheet: where it is, its `robot`
                    \*          instance, the outcome of the append request
  tokenEvents,      \* number of "tokens" events fired so far
  lastEvent,        \* history: the last "tokens" event and the row before it
  user,             \* the user's row in the database: its api_key
  requests          \* per HTTP request of the API-key routes: where it is,
                    \*          its local apiKey, its response

vars ==
  <<registry, pc, hasPendingTasks, todo, late, visited, cur, task, entryGen,
    attempts, ended, enqCount, owed, last, input, result,
    store, writer, tokenEvents, lastEvent, user, requests>>

writerVars == <<store, writer, tokenEvents, lastEvent>>
authVars == <<user, requests>>

procVars == <<pc, hasPendingTasks, todo, late, visited, cur, task>>
histVars == <<entryGen, attempts, ended, enqCount, owed, last>>

\* ---------------------------------------------------------------- registry
Task(robotId, runId, status, retries) ==
  [robotId |-> robotId, runId |-> runId, status |-> status, retries |-> retries]

EmptyRegistry == [k \in {} |-> Task("", "", "", 0)]

\* googleSheetUpdateTasks[r] = t
Insert(reg, r, t) == [k \in DOMAIN reg \cup {r} |-> IF k = r THEN t ELSE reg[k]]

\* delete googleSheetUpdateTasks[r]
Delete(reg, r) == [k \in DOMAIN reg \ {r} |-> reg[k]]

\* A reference to a task object: the object's fields and which insertion
\* created it.
NoRef == [gen |-> -1, retries |-> 0, status |-> "", robotId |-> ""]
Ref(t, gen) ==
  [gen |-> gen, retries |-> t.retries, status |-> t.status, robotId |-> t.robotId]

NoKey == ""
NoCall ==
  [p |-> "", runId |-> NoKey, kind |-> "", outcome |-> "", gen |-> -1, retries |-> 0]
NoInput == [called |-> FALSE]
NotCalled == [called |-> FALSE]

\* A call of writeDataToSheet that has not begun, and no "tokens" event yet.
IdleCall ==
  [pc |-> "idle", robot |-> NoRobot, api |-> "", result |-> WriteResult(FALSE, FALSE, "")]
NoEvent == [fired |-> FALSE]

WriterIdle ==
  /\ store = NoRobot
  /\ writer = [c \in Calls |-> IdleCall]
  /\ tokenEvents = 0
  /\ lastEvent = NoEvent

\* An HTTP request that has not arrived; status 0 is "no response yet".
NoUser == [found |-> FALSE, api_key |-> ""]
NewRequest == [pc |-> "new", kind |-> "", apiKey |-> "", status |-> 0, api_key |-> ""]

AuthIdle ==
  /\ user = NoUser
  /\ requests = [i \in Requests |-> NewRequest]

\* ------------------------------------------------ processGoogleSheetUpdates
\* line 183 as `task.status !== "completed"`
IsPending_NotCompleted(t) == t.status # "completed"

\* line 183
IsPending(t) == t.status = "pending"

\* lines 185-205 counting every attempt as a retry, with no test of the bound
HandleAttempt_Unbounded(reg, r, outcome, t) ==
  IF r \in DOMAIN reg
    THEN [reg |-> [reg EXCEPT ![r].retries = @ + 1], crashed |-> FALSE]
    ELSE [reg |-> reg, crashed |-> FALSE]

\* lines 185-205 with line 188 marking the task completed instead of deleting it
HandleAttempt_MarkCompleted(reg, r, outcome, t) ==
  IF r \in DOMAIN reg
    THEN [reg |-> [reg EXCEPT ![r].status = "completed"], crashed |-> FALSE]
    ELSE [reg |-> reg, crashed |-> FALSE]

\* lines 185-205: what follows the awaited call.  t is the object bound to
\* `task`; the statements of the catch block write through
\* googleSheetUpdateTasks[runId] and raise a TypeError when that is undefined.
HandleAttempt(reg, r, outcome, t) ==
  IF outcome = "returned"
    THEN [reg |-> Delete(reg, r), crashed |-> FALSE]
  ELSE IF r \notin DOMAIN reg
    THEN [reg |-> reg, crashed |-> TRUE]
  ELSE IF t.retries < MAX_RETRIES
    THEN [reg |-> [reg EXCEPT ![r].retries = @ + 1], crashed |-> FALSE]
  ELSE [reg |-> [reg EXCEPT ![r].status = "failed"], crashed |-> FALSE]

\* line 176 and the start of the for-in of line 177
ScanTodo(reg) == DOMAIN reg

\* lines 209-215 without the break of lines 209-212
AfterScan_NoBreak(hp) == "sleep"

\* lines 209-215 breaking out of the loop after every scan
AfterScan_AlwaysBreak(hp) == "done"

\* lines 209-215: after a full scan
AfterScan(hp) == IF hp THEN "sleep" ELSE "done"

Zeros == [p \in Procs |-> 0]

\* The loop runs without yielding from where it resumes to its next await:
\* the call of line 186 for some pending key of the for-in, or the end of the
\* scan.  Entries that are not pending are passed over (lines 178-183).
Advance(p, reg, hp, tdF, ltF, vsF, tkF, atF, owF) ==
  /\ registry' = reg
  /\ \/ \E r \in ((tdF[p] \cup ltF[p]) \ vsF[p]) \cap DOMAIN reg :
          /\ IsPending(reg[r])
          /\ pc' = [pc EXCEPT ![p] = "await"]
          /\ hasPendingTasks' = [hasPendingTasks EXCEPT ![p] = TRUE]
          /\ cur' = [cur EXCEPT ![p] = r]
          /\ task' = [tkF EXCEPT ![p] = Ref(reg[r], entryGen[r])]
          /\ visited' = [vsF EXCEPT ![p] = @ \cup {r}]
          /\ todo' = tdF
          /\ late' = ltF
          /\ attempts' = [atF EXCEPT ![r][p] = @ + 1]
          /\ owed' = [q \in Procs |-> owF[q] \ {r}]
     \/ /\ ~ \E r \in (tdF[p] \ vsF[p]) \cap DOMAIN reg : IsPending(reg[r])
        /\ pc' = [pc EXCEPT ![p] = AfterScan(hp)]
        /\ hasPendingTasks' = [hasPendingTasks EXCEPT ![p] = hp]
        /\ cur' = [cur EXCEPT ![p] = NoKey]
        /\ task' = [tkF EXCEPT ![p] = NoRef]
        /\ visited' = [vsF EXCEPT ![p] = {}]
        /\ todo' = [tdF EXCEPT ![p] = {}]
        /\ late' = [ltF EXCEPT ![p] = {}]
        /\ attempts' = atF
        /\ owed' = owF

\* A new scan: lines 175-177.
BeginScan(p, owF) ==
  Advance(p, registry, FALSE,
          [todo EXCEPT ![p] = ScanTodo(registry)],
          [late EXCEPT ![p] = {}],
          [visited EXCEPT ![p] = {}],
          task, attempts, owF)

\* processGoogleSheetUpdates() is called.
Start(p) ==
  /\ pc[p] \in {"idle", "done"}
  /\ BeginScan(p, [owed EXCEPT ![p] = {}])
  /\ last' = NoCall
  /\ UNCHANGED <<entryGen, ended, enqCount, input, result,
               writerVars, authVars>>

\* The timer of line 215 fires.
Wake(p) ==
  /\ pc[p] = "sleep"
  /\ BeginScan(p, owed)
  /\ last' = NoCall
  /\ UNCHANGED <<entryGen, ended, enqCount, input, result,
               writerVars, authVars>>

\* What the collaborators answer to one call made by the processor.
EnvRuns ==
  {NoRun} \cup
  {[found |-> TRUE, status |-> s, serializableOutput |-> so,
    binaryOutput |-> [present |-> FALSE, names |-> {}, item0 |-> ""]] :
     s \in RunStatuses,
     so \in {[present |-> FALSE, names |-> {}, item0 |-> <<>>],
             [present |-> TRUE, names |-> {"item-0"},
              item0 |-> << << <<"a", "1">> >> >>]}}

EnvRobots ==
  {NoRobot} \cup
  {[found |-> TRUE, google_sheets |-> g] :
     g \in {x \in GoogleSheets :
              /\ (x.email = "") = (x.sheet_id = "")
              /\ (x.access_token = "") = (x.refresh_token = "")}}

\* Every way one updateGoogleSheet call of the processor can end.
EnvResults ==
  {updateGoogleSheet(run, robot, IF gone THEN NoRobot ELSE robot, api) :
     run \in EnvRuns, robot \in EnvRobots, gone \in BOOLEAN, api \in ApiResults}

\* The awaited updateGoogleSheet call of invocation p settles (line 186) and
\* the loop runs on to its next await.
Return(p) ==
  /\ pc[p] = "await"
  /\ \E res \in EnvResults :
       LET r == cur[p]
           h == HandleAttempt(registry, r, res.outcome, task[p])
           deleted == r \in DOMAIN registry /\ r \notin DOMAIN h.reg
           sameObject(q) ==
             /\ q # p /\ pc[q] = "await" /\ cur[q] = r
             /\ r \in DOMAIN h.reg /\ task[q].gen = entryGen[r]
           tkF == [q \in Procs |->
                     IF sameObject(q) THEN Ref(h.reg[r], entryGen[r]) ELSE task[q]]
           tdF == [q \in Procs |-> IF deleted THEN todo[q] \ {r} ELSE todo[q]]
           atF == IF deleted THEN [attempts EXCEPT ![r] = Zeros] ELSE attempts
       IN  /\ last' = [p |-> p, runId |-> r, kind |-> res.kind,
                       outcome |-> res.outcome, gen |-> task[p].gen,
                       retries |-> task[p].retries]
           /\ ended' = [ended EXCEPT ![r] =
                          @ \/ (res.kind \in NoRetryKinds /\ task[p].gen = entryGen[r])]
           /\ IF h.crashed
                THEN /\ pc' = [pc EXCEPT ![p] = "crashed"]
                     /\ UNCHANGED <<registry, hasPendingTasks, todo, late, visited,
                                    cur, task, attempts, owed>>
                ELSE Advance(p, h.reg, hasPendingTasks[p], tdF, late, visited, tkF,
                             atF, owed)
  /\ UNCHANGED <<entryGen, enqCount, input, result,
               writerVars, authVars>>

\* An external caller stores a new task under runId r (overwriting any entry).
Enqueue(r, robotId) ==
  /\ enqCount' = enqCount + 1
  /\ registry' = Insert(registry, r, Task(robotId, r, "pending", 0))
  /\ entryGen' = [entryGen EXCEPT ![r] = @ + 1]
  /\ attempts' = [attempts EXCEPT ![r] = Zeros]
  /\ ended' = [ended EXCEPT ![r] = FALSE]
  /\ late' = [q \in Procs |->
                IF pc[q] = "await" /\ r \notin DOMAIN registry /\ r \notin visited[q]
                  THEN late[q] \cup {r} ELSE late[q]]
  /\ owed' = [q \in Procs |->
                IF r \in DOMAIN registry THEN owed[q] \ {r}
                ELSE IF pc[q] \in {"await", "sleep"} THEN owed[q] \cup {r}
                ELSE owed[q]]
  /\ last' = NoCall
  /\ UNCHANGED <<pc, hasPendingTasks, todo, visited, cur, task, input, result,
               writerVars, authVars>>

ProcInit ==
  /\ pc = [p \in Procs |-> "idle"]
  /\ hasPendingTasks = [p \in Procs |-> FALSE]
  /\ todo = [p \in Procs |-> {}]
  /\ late = [p \in Procs |-> {}]
  /\ visited = [p \in Procs |-> {}]
  /\ cur = [p \in Procs |-> NoKey]
  /\ task = [p \in Procs |-> NoRef]
  /\ entryGen = [r \in RunIds |-> 0]
  /\ attempts = [r \in RunIds |-> Zeros]
  /\ ended = [r \in RunIds |-> FALSE]
  /\ enqCount = 0
  /\ owed = [p \in Procs |-> {}]
  /\ last = NoCall
  /\ input = NoInput
  /\ result = NotCalled

\* The module is loaded: the registry is empty (lines 15-16).
Init ==
  /\ registry = EmptyRegistry
  /\ ProcInit
  /\ WriterIdle
  /\ AuthIdle

Next ==
  \/ \E p \in Procs : Start(p)
  \/ \E p \in Procs : Return(p)
  \/ \E p \in Procs : Wake(p)
  \/ \E r \in RunIds, robotId \in RobotIds :
       enqCount < MaxEnqueues /\ Enqueue(r, robotId)

Spec == Init /\ [][Next]_vars

\* ------------------------------------------------ any registry to start from
\* googleSheetUpdateTasks is an exported variable of type
\* { [runId]: GoogleSheetUpdateTask } (lines 6-16): other modules may have
\* stored any task in it before the processor runs.
TaskStatuses == {"pending", "completed", "failed"}

\* The processor reads retries only in `task.retries < MAX_RETRIES`.
AnyRetries == {0, MAX_RETRIES}

AnyTasks(r) ==
  {Task(robotId, r, st, n) :
     robotId \in RobotIds, st \in TaskStatuses, n \in AnyRetries}

AnyInit ==
  /\ registry \in
       UNION {{reg \in [D -> UNION {AnyTasks(x) : x \in RunIds}] :
                 \A r \in D : reg[r].runId = r} : D \in SUBSET RunIds}
  /\ ProcInit
  /\ WriterIdle
  /\ AuthIdle

AnyNext ==
  \/ \E p \in Procs : Start(p)
  \/ \E p \in Procs : Return(p)
  \/ \E p \in Procs : Wake(p)
  \/ \E r \in RunIds, robotId \in RobotIds :
       enqCount < MaxLateEnqueues /\ Enqueue(r, robotId)

AnySpec == AnyInit /\ [][AnyNext]_vars

\* The awaited call settles and the timer fires: the event loop runs every
\* continuation that is ready.
Fairness ==
  \A p \in Procs : WF_vars(Return(p)) /\ WF_vars(Wake(p))

LiveSpec == AnyInit /\ [][AnyNext]_vars /\ Fairness

\* ------------------------------------------- direct calls updateGoogleSheet
DirectRobotId == "robot1"

\* The append result and a robot that vanished between the two lookups are
\* varied for the robots whose e-mail and sheet id are set: for the others
\* writeDataToSheet is not reached.
Inputs ==
  {i \in [called : {FALSE}, robotId : {DirectRobotId}, runId : {"run1"},
          run : Runs(Datas(MaxRows)), robot : Robots, gone : BOOLEAN,
          api : ApiResults] :
     (i.gone \/ i.api # "200") => (i.robot.found /\ Configured(i.robot))}

SheetInit ==
  /\ registry = EmptyRegistry
  /\ pc = [p \in Procs |-> "idle"]
  /\ hasPendingTasks = [p \in Procs |-> FALSE]
  /\ todo = [p \in Procs |-> {}]
  /\ late = [p \in Procs |-> {}]
  /\ visited = [p \in Procs |-> {}]
  /\ cur = [p \in Procs |-> NoKey]
  /\ task = [p \in Procs |-> NoRef]
  /\ entryGen = [r \in RunIds |-> 0]
  /\ attempts = [r \in RunIds |-> Zeros]
  /\ ended = [r \in RunIds |-> FALSE]
  /\ enqCount = 0
  /\ owed = [p \in Procs |-> {}]
  /\ last = NoCall
  /\ input \in Inputs
  /\ result = NotCalled
  /\ WriterIdle
  /\ AuthIdle

\* await updateGoogleSheet(input.robotId, input.runId), lines 18-86: the
\* function reads the run and the robot and never touches the registry.
CallUpdateGoogleSheet ==
  /\ ~result.called
  /\ result' = updateGoogleSheet(input.run, input.robot,
                                 IF input.gone THEN NoRobot ELSE input.robot,
                                 input.api)
  /\ UNCHANGED <<registry, procVars, histVars, input, writerVars, authVars>>

SheetNext == CallUpdateGoogleSheet

SheetSpec == SheetInit /\ [][SheetNext]_vars

\* ------------------------------------------------ writeDataToSheet, in steps
\* The robot's row as writeDataToSheet sees it: the google_sheets integration
\* with all its fields, and `other` for every other integration of the robot.
SheetIntegrations ==
  [present : {TRUE}, email : {"", "u@x"}, sheet_id : {"", "sheet1"},
   sheet_name : {"", "Sheet A"}, access_token : {"", "at1"},
   refresh_token : {"", "rt1"}]
  \cup {[present |-> FALSE, email |-> "", sheet_id |-> "", sheet_name |-> "",
         access_token |-> "", refresh_token |-> ""]}

StoredRobots ==
  {NoRobot} \cup
  {[found |-> TRUE, google_sheets |-> g, other |-> o] :
     g \in SheetIntegrations, o \in {"", "airtable"}}

\* The argument of a "tokens" event; "" is a token the event does not carry,
\* and an event carries at least one token.
EventTokens ==
  {t \in [access_token : {"", "at2"}, refresh_token : {"", "rt2"}] :
     t.access_token # "" \/ t.refresh_token # ""}

\* The handler of lines 122-147 applied to the call's `robot` instance: the
\* value of robot.integrations it builds and hands to robot.update.
TokenHandler(robot, tokens) ==
  LET gs == IF robot.google_sheets.present THEN robot.google_sheets
            ELSE [present |-> TRUE, email |-> "", sheet_id |-> "",
                  sheet_name |-> "", access_token |-> "", refresh_token |-> ""]
      withRefresh == IF tokens.refresh_token # ""
                       THEN [gs EXCEPT !.refresh_token = tokens.refresh_token]
                       ELSE gs
      withAccess == IF tokens.access_token # ""
                      THEN [withRefresh EXCEPT !.access_token = tokens.access_token]
                      ELSE withRefresh
  IN [robot EXCEPT !.google_sheets = withAccess]

\* Lines 94-108: Robot.findOne and the two checks; the call either raises or
\* goes on to issue the append request (lines 110-159).
WFind(c) ==
  /\ writer[c].pc = "idle"
  /\ LET early == writeDataToSheet(store, "200")
     IN writer' = [writer EXCEPT ![c] =
                     IF early.appendCalled
                       THEN [@ EXCEPT !.pc = "append", !.robot = store]
                       ELSE [@ EXCEPT !.pc = "done", !.robot = store,
                                      !.result = early]]
  /\ UNCHANGED <<store, tokenEvents, lastEvent>>
  /\ UNCHANGED <<registry, procVars, histVars, input, result, authVars>>

\* The OAuth2 client of call c emits "tokens" while the append request is in
\* flight (lines 122-147): robot.update writes the integrations built from
\* the call's own `robot` instance.
WTokens(c, tokens) ==
  /\ writer[c].pc = "append"
  /\ tokenEvents < MaxTokenEvents
  /\ LET updated == TokenHandler(writer[c].robot, tokens)
     IN /\ writer' = [writer EXCEPT ![c].robot = updated]
        /\ store' = updated
  /\ tokenEvents' = tokenEvents + 1
  /\ lastEvent' = [fired |-> TRUE, c |-> c, tokens |-> tokens, before |-> store]
  /\ UNCHANGED <<registry, procVars, histVars, input, result, authVars>>

\* The append request settles (lines 154-171).
WAppend(c, api) ==
  /\ writer[c].pc = "append"
  /\ writer' = [writer EXCEPT ![c] =
                  [@ EXCEPT !.pc = "done", !.api = api,
                            !.result = writeDataToSheet(writer[c].robot, api)]]
  /\ UNCHANGED <<store, tokenEvents, lastEvent>>
  /\ UNCHANGED <<registry, procVars, histVars, input, result, authVars>>

WriterInit ==
  /\ registry = EmptyRegistry
  /\ ProcInit
  /\ AuthIdle
  /\ store \in StoredRobots
  /\ writer = [c \in Calls |-> IdleCall]
  /\ tokenEvents = 0
  /\ lastEvent = NoEvent

WriterNext ==
  \/ \E c \in Calls : WFind(c)
  \/ \E c \in Calls, tokens \in EventTokens : WTokens(c, tokens)
  \/ \E c \in Calls, api \in ApiResults : WAppend(c, api)

WriterSpec == WriterInit /\ [][WriterNext]_vars

\* ------------------------------------ generate-api-key and delete-api-key
\* genAPIKey() returns a fresh random key: the key drawn by request i is
\* told apart from every other key.  api_key null is "".
genAPIKey(i) == "key" \o ToString(i)

StoredUsers ==
  {NoUser} \cup {[found |-> TRUE, api_key |-> k] : k \in {"", "key0"}}

Respond(i, kind, status, body) ==
  [requests EXCEPT ![i] =
     [@ EXCEPT !.pc = "done", !.kind = kind, !.status = status, !.api_key = body]]

\* POST /generate-api-key of a signed-in user up to its second await
\* (auth.ts lines 100-111): User.findByPk, the two checks, genAPIKey().
GenFind(i) ==
  /\ requests[i].pc = "new"
  /\ requests' =
       IF ~user.found THEN Respond(i, "generate", 404, "")
       ELSE IF user.api_key # "" THEN Respond(i, "generate", 400, "")
       ELSE [requests EXCEPT ![i] =
               [@ EXCEPT !.pc = "update", !.kind = "generate",
                          !.apiKey = genAPIKey(i)]]
  /\ UNCHANGED user
  /\ UNCHANGED <<registry, procVars, histVars, input, result, writerVars>>

\* await user.update({api_key: apiKey}) settles (auth.ts lines 113-121): the
\* key is stored and returned, or the update fails and the catch answers 500.
GenUpdate(i, ok) ==
  /\ requests[i].pc = "update"
  /\ requests[i].kind = "generate"
  /\ IF ok
       THEN /\ user' = [user EXCEPT !.api_key = requests[i].apiKey]
            /\ requests' = Respond(i, "generate", 200, requests[i].apiKey)
       ELSE /\ user' = user
            /\ requests' = Respond(i, "generate", 500, "")
  /\ UNCHANGED <<registry, procVars, histVars, input, result, writerVars>>

\* DELETE /delete-api-key up to its second await (auth.ts lines 150-158).
DelFind(i) ==
  /\ requests[i].pc = "new"
  /\ requests' =
       IF ~user.found THEN Respond(i, "delete", 404, "")
       ELSE IF user.api_key = "" THEN Respond(i, "delete", 404, "")
       ELSE [requests EXCEPT ![i] = [@ EXCEPT !.pc = "update", !.kind = "delete"]]
  /\ UNCHANGED user
  /\ UNCHANGED <<registry, procVars, histVars, input, result, writerVars>>

\* await User.update({api_key: null}, ...) settles (auth.ts lines 160-165).
DelUpdate(i, ok) ==
  /\ requests[i].pc = "update"
  /\ requests[i].kind = "delete"
  /\ IF ok
       THEN /\ user' = [user EXCEPT !.api_key = ""]
            /\ requests' = Respond(i, "delete", 200, "")
       ELSE /\ user' = user
            /\ requests' = Respond(i, "delete", 500, "")
  /\ UNCHANGED <<registry, procVars, histVars, input, result, writerVars>>

AuthInit ==
  /\ registry = EmptyRegistry
  /\ ProcInit
  /\ WriterIdle
  /\ user \in StoredUsers
  /\ requests = [i \in Requests |-> NewRequest]

AuthNext ==
  \/ \E i \in Requests : GenFind(i)
  \/ \E i \in Requests, ok \in BOOLEAN : GenUpdate(i, ok)
  \/ \E i \in Requests : DelFind(i)
  \/ \E i \in Requests, ok \in BOOLEAN : DelUpdate(i, ok)

AuthSpec == AuthInit /\ [][AuthNext]_vars

\* =================================================================== claims

\* C1: after an attempt of the processor that failed, the task is still in the
\* registry: pending with retries one more than before if retries was below
\* MAX_RETRIES, failed if retries was MAX_RETRIES.
C1_FailureIsCounted ==
  last.kind \in FailKinds =>
    /\ last.runId \in DOMAIN registry
    /\ IF last.retries < MAX_RETRIES
         THEN /\ registry[last.runId].status = "pending"
              /\ registry[last.runId].retries = last.retries + 1
         ELSE registry[last.runId].status = "failed"

C3_FailedIsTerminal ==
  [][\A r \in DOMAIN registry :
       (registry[r].status = "failed" /\ enqCount' = enqCount) =>
          /\ r \in DOMAIN registry'
          /\ registry'[r] = registry[r]
          /\ attempts'[r] = attempts[r]
          /\ \A p \in Procs : pc'[p] = "await" => cur'[p] # r]_vars

C3_Witness ==
  /\ last # NoCall
  /\ pc[last.p] = "sleep"
  /\ \E r \in DOMAIN registry : registry[r].status = "failed"

\* C4: when the attempt of the processor for a task wrote the rows, the task's
\* runId is out of the registry by the time the loop reaches its next await;
\* and no entry of the registry has status completed.
C4_SuccessRemoves ==
  /\ last.kind = "written" => last.runId \notin DOMAIN registry
  /\ \A r \in DOMAIN registry : registry[r].status # "completed"

C4_Witness ==
  /\ last.kind = "written"
  /\ pc[last.p] = "await"
  /\ cur[last.p] # last.runId

\* ----------------------------------------------------------------- C5
\* C5: every invocation of processGoogleSheetUpdates that is running (awaiting
\* a call or the delay) eventually exits, from any initial registry, whatever
\* the calls answer, once insertions have stopped.
C5_Terminates ==
  \A p \in Procs : (pc[p] \in {"await", "sleep"}) ~> (pc[p] = "done")

C5_Witness ==
  /\ \E p \in Procs : pc[p] = "done" /\ \A q \in Procs : pc[q] \in {"idle", "done"}
  /\ enqCount = MaxLateEnqueues
  /\ \E r \in DOMAIN registry : registry[r].status = "failed"
  /\ \E r \in RunIds : entryGen[r] > 0 /\ r \notin DOMAIN registry

\* ------------------------------------------------------------ direct calls
StatusNotSuccess == input.run.found /\ input.run.status # "success"

\* C6: a call updateGoogleSheet(robotId, runId) either attempts an append or
\* leaves a task for runId in the registry; when the run's status is not
\* success a task is recorded.
C6_AppendOrTask ==
  result.called =>
    /\ result.appendCalled \/ input.runId \in DOMAIN registry
    /\ StatusNotSuccess => input.runId \in DOMAIN registry

\* C6 as amended: a call updateGoogleSheet(robotId, runId) never changes the
\* registry; it either attempts an append or returns without one, and when the
\* run's status is not success it attempts no append and records no task.
C6_NeverRecords ==
  result.called =>
    /\ registry = EmptyRegistry
    /\ StatusNotSuccess =>
         (~result.writeInvoked /\ ~result.appendCalled /\ result.outcome = "returned")

C6_Witness ==
  /\ result.called
  /\ StatusNotSuccess
  /\ input.robot.found /\ Configured(input.robot)
  /\ input.run.serializableOutput.names = {"item-0"}
  /\ Len(input.run.serializableOutput.item0) > 0

\* C7: when the robot's google_sheets integration lacks sheet_id or e-mail, or
\* is absent, updateGoogleSheet does not invoke writeDataToSheet, attempts no
\* append and returns normally, whatever the run's status and outputs.
C7_NotConfiguredNoAppend ==
  (result.called /\ input.robot.found /\
     (Field(input.robot, "email") = "" \/ Field(input.robot, "sheet_id") = "")) =>
    /\ ~result.writeInvoked
    /\ ~result.appendCalled
    /\ result.outcome = "returned"

C7_Witness ==
  /\ result.called
  /\ input.robot.found
  /\ input.robot.google_sheets.present
  /\ input.robot.google_sheets.email # ""
  /\ input.robot.google_sheets.sheet_id = ""
  /\ input.robot.google_sheets.access_token # ""
  /\ input.robot.google_sheets.refresh_token # ""
  /\ input.run.found /\ input.run.status = "success"
  /\ input.run.serializableOutput.names = {"item-0"}
  /\ Len(input.run.serializableOutput.item0) = 2
  /\ result.kind = "notConfigured"

Lookup(o, k) == IF HasKey(o, k) THEN Get(o, k) ELSE ""

\* the rows C9 describes: the first object's keys, then for every object its
\* values for these keys, in the order of these keys
RowsByHeader(data) ==
  LET headers == ObjectKeys(data[1])
  IN  <<headers>> \o
      [i \in 1..Len(data) |-> [j \in 1..Len(headers) |-> Lookup(data[i], headers[j])]]

Structured ==
  /\ input.run.found /\ input.run.status = "success"
  /\ input.run.serializableOutput.present
  /\ "item-0" \in input.run.serializableOutput.names
  /\ Len(input.run.serializableOutput.item0) > 0

\* C9: for a successful run with structured output and a configured
\* integration, the rows passed to the append call are the first object's keys
\* followed by one row per object holding that object's values for these keys.
C9_RowsFollowHeaders ==
  (result.called /\ Structured /\ result.appendCalled) =>
    result.rows = RowsByHeader(input.run.serializableOutput.item0)

BinaryOnly ==
  /\ input.run.found /\ input.run.status = "success"
  /\ ~input.run.serializableOutput.present \/ input.run.serializableOutput.names = {}
  /\ input.run.binaryOutput.present
  /\ "item-0" \in input.run.binaryOutput.names
  /\ input.run.binaryOutput.item0 # ""

\* C10: for a successful run with no structured output whose
\* binaryOutput["item-0"] is a URL u, and a configured integration, the rows
\* passed on to the append call are [["Screenshot URL"], [u]].
C10_ScreenshotRows ==
  (result.called /\ BinaryOnly /\ input.robot.found /\ Configured(input.robot)) =>
    /\ result.writeInvoked
    /\ result.rows = << <<"Screenshot URL">>, <<input.run.binaryOutput.item0>> >>
    /\ result.kind \in {"written", "non200", "apiError"} <=> result.appendCalled

C10_Witness ==
  /\ result.called
  /\ BinaryOnly
  /\ input.run.binaryOutput.item0 = "https://x/y.png"
  /\ result.appendCalled
  /\ result.kind = "written"
  /\ result.rows = << <<"Screenshot URL">>, <<"https://x/y.png">> >>

\* ------------------------------------------------------------ C12 to C17
InFlight == {p \in Procs : pc[p] = "await"}

\* C12: at most one updateGoogleSheet call started by the processor is in
\* flight at any time (so no entry is passed to two calls that overlap), also
\* when processGoogleSheetUpdates is called again before an earlier
\* invocation has exited.
C12_OneCallInFlight == Cardinality(InFlight) <= 1

HasPending(reg) == \E r \in DOMAIN reg : reg[r].status = "pending"

\* C13: an invocation exits only from the start of a scan (never from the
\* scan in which it awaited a call), and then the registry holds no pending
\* entry; after a scan in which it awaited a call it waits for the delay.
C13_ExitOnlyWhenDrained ==
  [][\A p \in Procs :
       /\ (pc'[p] = "done" /\ pc[p] # "done") =>
             (pc[p] \in {"idle", "sleep"} /\ ~HasPending(registry'))
       /\ pc[p] = "await" => pc'[p] \in {"await", "sleep"}]_vars

C13_Witness ==
  /\ last # NoCall
  /\ pc[last.p] = "sleep"
  /\ registry = EmptyRegistry
  /\ \E q \in Procs : pc[q] = "done"

\* C14: updateGoogleSheet returns normally whatever the run, the robot, the
\* output data, the tokens and the append do.
C14_NeverRaises == result.called => result.outcome = "returned"

C14_Witness ==
  /\ result.called
  /\ result.kind = "dataError"
  /\ input.run.found /\ input.run.status = "success"
  /\ ~input.run.serializableOutput.present
  /\ ~input.run.binaryOutput.present

\* C16: when an invocation exits, every task that was inserted while it was
\* running, under a runId the registry did not hold, has been passed to
\* updateGoogleSheet.
C16_NoLostWork == \A p \in Procs : pc[p] = "done" => owed[p] = {}

\* C17: when the entry under runId r was overwritten while the processor's
\* call for r was in flight, the step that handles the end of that call
\* leaves the new entry in the registry as it is.
C17_NewEntrySurvives ==
  [][\A p \in Procs :
       (/\ pc[p] = "await"
        /\ last' # NoCall /\ last'.p = p
        /\ cur[p] \in DOMAIN registry
        /\ task[p].gen # entryGen[cur[p]]) =>
          /\ cur[p] \in DOMAIN registry'
          /\ registry'[cur[p]] = registry[cur[p]]]_vars

\* C11: after a "tokens" event during writeDataToSheet the stored
\* google_sheets.refresh_token is the event's refresh_token if it carries
\* one and the value stored before the event otherwise, likewise for
\* access_token, and sheet_id, email, sheet_name and the other integrations
\* are the ones stored before the event.
C11_TokensMerged ==
  lastEvent.fired =>
    LET before == lastEvent.before.google_sheets
        after == store.google_sheets
        tokens == lastEvent.tokens
    IN /\ after.refresh_token =
            IF tokens.refresh_token # "" THEN tokens.refresh_token
            ELSE before.refresh_token
       /\ after.access_token =
            IF tokens.access_token # "" THEN tokens.access_token
            ELSE before.access_token
       /\ after.sheet_id = before.sheet_id
       /\ after.email = before.email
       /\ after.sheet_name = before.sheet_name
       /\ store.other = lastEvent.before.other

\* C15: a call of writeDataToSheet has an append request issued only when it
\* found the robot with a non-empty access_token and a non-empty
\* refresh_token; when the robot is missing or a token is absent the call
\* raises without an append request; when the append request raises, the
\* call raises.
TokensRead(robot) ==
  /\ robot.found
  /\ Field(robot, "access_token") # ""
  /\ Field(robot, "refresh_token") # ""

C15_AppendAfterChecks ==
  \A c \in Calls :
    /\ writer[c].pc = "append" => TokensRead(writer[c].robot)
    /\ writer[c].pc = "done" =>
         /\ writer[c].result.appendCalled => TokensRead(writer[c].robot)
         /\ ~TokensRead(writer[c].robot) =>
              writer[c].result.threw /\ ~writer[c].result.appendCalled
         /\ writer[c].api = "raise" => writer[c].result.threw

C15_Witness ==
  \E c \in Calls :
    /\ writer[c].pc = "done"
    /\ writer[c].api = "raise"
    /\ writer[c].result.appendCalled
    /\ writer[c].result.threw

\* C18: a stored api_key that is not null changes only when a
\* delete-api-key request answers 200, and then to null; when a
\* generate-api-key request answers 200 the api_key of its response is the
\* stored key; a generate-api-key request answered while a key is stored is
\* answered 400, or 500 when the database failed, and leaves the key as it is.
Answered(i, kind) ==
  /\ requests[i].status = 0
  /\ requests'[i].status # 0
  /\ requests'[i].kind = kind

C18_KeyNeverReplaced ==
  [][/\ (user.api_key # "" /\ user'.api_key # user.api_key) =>
          /\ user'.api_key = ""
          /\ \E i \in Requests : Answered(i, "delete") /\ requests'[i].status = 200
     /\ \A i \in Requests :
          /\ (Answered(i, "generate") /\ requests'[i].status = 200) =>
                user'.api_key = requests'[i].api_key
          /\ (Answered(i, "generate") /\ user.api_key # "") =>
                /\ requests'[i].status \in {400, 500}
                /\ user'.api_key = user.api_key]_vars

====
